---- MODULE Spec2Model ----
(***************************************************************************)
(* A model of the mrklar file archive: the append-only Merkle tree engine  *)
(* (crates/tree), the proof value (crates/common), the durable archive     *)
(* MemDb (crates/mrklar/src/mem_db.rs) and the streaming upload, proof and *)
(* download handlers (crates/mrklar/src/file_service.rs).                  *)
(*                                                                         *)
(* Byte strings are sequences of tokens.  A file byte is one of the tokens *)
(* of Bytes.  SHA-256 is modelled as a collision-free function on byte     *)
(* strings: the digest of a message m is the bracketed message             *)
(* <<"[">> \o m \o <<"]">>, so two messages have the same digest exactly   *)
(* when they are the same token sequence, and feeding two digests to one   *)
(* hasher is the concatenation the code performs.  The null digest (32     *)
(* zero bytes) is the one-token string <<"0">>.                            *)
(***************************************************************************)
EXTENDS Integers, Sequences, FiniteSets, TLC

(***************************************************************************)
(* Bounds of the model.                                                    *)
(***************************************************************************)
\* number of upload calls (one task each) the clients make
MaxCalls == 2
\* number of Chunk messages one upload stream may carry
MaxChunks == 1
\* number of leaves the tree-engine specification grows the tree to
MaxLeaves == 5
\* ServerConfig::chunk_size as configured: bytes per Chunk of a download
chunk_size == 1
\* ServerConfig::channel_size as configured: capacity of the download channel
channel_size == 1
\* longest file, and largest chunk size, the chunking loop is run on by itself
MaxFileLen == 12
MaxChunkSize == 8
\* the maximum level count of the tree whose growth is run up to its maximum
LevelCap == 5

(***************************************************************************)
(* Program constants.                                                      *)
(***************************************************************************)
MAX_LEVEL_COUNT == 64

NULL_HASH == <<"0">>

\* the bytes a file is made of
Bytes == {"a"}

(***************************************************************************)
(* Hash primitives (crates/common/src/merkle_proof.rs, crates/fs).         *)
(***************************************************************************)
\* Sha256::new(); update(m); finalize(): collision-free
Sha256(m) == <<"[">> \o m \o <<"]">>

null_hash == NULL_HASH

\* MerkleProof::sha256_pair: one hasher, update(left), update(right)
sha256_pair(left, right) == Sha256(left \o right)

(***************************************************************************)
(* Results of fallible functions: Ok(val) or Err(err).                     *)
(***************************************************************************)
Ok(v) == [ok |-> TRUE, val |-> v, err |-> "none"]
Err(e) == [ok |-> FALSE, val |-> <<>>, err |-> e]

(***************************************************************************)
(* MerkleTreeLevel (crates/tree/src/merkle_tree.rs).  A level is a record  *)
(* [level, hashes]; Rust index i is position i + 1 of hashes.  The field   *)
(* level is the depth of the level below the root: the root level has      *)
(* level 0 and room for 1 hash, the level below it has room for 2, ...     *)
(***************************************************************************)
MerkleTreeLevel_new == [level |-> 0, hashes |-> <<>>]

\* crate::pow2::two_pow_n
two_pow_n(n) == 2 ^ n

max_len_at_level_linear(level) == level + 1

max_len_at_level(level) == two_pow_n(level)

max_len(l) == max_len_at_level(l.level)

level_len(l) == Len(l.hashes)

level_is_empty(l) == level_len(l) = 0

is_full(l) == level_len(l) >= max_len(l)

\* inc_level with the maximum level count max
inc_level_under(l, max) ==
    IF l.level < max
    THEN Ok([l EXCEPT !.level = l.level + 1])
    ELSE Err("TooManyLevels")

inc_level(l) == inc_level_under(l, MAX_LEVEL_COUNT)

push_hash(l, hash) ==
    IF level_len(l) >= max_len(l)
    THEN Err("LevelFull")
    ELSE Ok([l EXCEPT !.hashes = Append(l.hashes, hash)])

add_hash(l, hash) == push_hash(l, hash)

sibling_index_self(index) == index

sibling_index(index) ==
    IF index % 2 = 0 THEN index + 1 ELSE index - 1

left_right_at_from_index(index) == <<index, index + 1>>

left_right_at(index) ==
    IF index % 2 = 0 THEN <<index, index + 1>> ELSE <<index - 1, index>>

get_hash_at(l, index) ==
    IF index >= level_len(l)
    THEN Err("NodeDoesNotExist")
    ELSE Ok(l.hashes[index + 1])

set_hash_at_append_only(l, index, hash) ==
    IF hash = <<>> THEN Err("InvalidHash")
    ELSE IF index > Len(l.hashes) THEN Err("NodeDoesNotExist")
    ELSE IF index = Len(l.hashes) THEN push_hash(l, hash)
    ELSE Ok(l)

set_hash_at(l, index, hash) ==
    IF hash = <<>> THEN Err("InvalidHash")
    ELSE IF index > level_len(l) THEN Err("NodeDoesNotExist")
    ELSE IF index = level_len(l) THEN push_hash(l, hash)
    ELSE Ok([l EXCEPT !.hashes[index + 1] = hash])

try_parent_index(l, index) ==
    IF l.level = 0 THEN Err("NodeDoesNotExist")
    ELSE IF index \div 2 >= max_len_at_level(l.level - 1)
         THEN Err("NodeDoesNotExist")
         ELSE Ok(index \div 2)

hash_left_right_at_no_padding(l, index) ==
    LET lr == left_right_at(index)
        left == lr[1]
        right == lr[2]
    IN  IF left >= level_len(l) THEN Err("NodeDoesNotExist")
        ELSE IF right = level_len(l)
             THEN Ok(l.hashes[left + 1])
             ELSE Ok(sha256_pair(l.hashes[left + 1], l.hashes[right + 1]))

hash_left_right_at(l, index) ==
    LET lr == left_right_at(index)
        left == lr[1]
        right == lr[2]
    IN  IF left >= level_len(l) THEN Err("NodeDoesNotExist")
        ELSE LET left_hash == get_hash_at(l, left)
                 right_hash == IF right = level_len(l)
                               THEN Ok(null_hash)
                               ELSE get_hash_at(l, right)
             IN  IF ~left_hash.ok THEN left_hash
                 ELSE IF ~right_hash.ok THEN right_hash
                 ELSE Ok(sha256_pair(left_hash.val, right_hash.val))

(***************************************************************************)
(* MerkleTree: levels is the vector of levels, levels[1] the leaves and    *)
(* the last one the root level.                                            *)
(***************************************************************************)
MerkleTree_new == <<MerkleTreeLevel_new>>

\* the assertions of level_count, level and level_mut
levels_assert_under(levels, max) == Len(levels) > 0 /\ Len(levels) < max

levels_assert(levels) == levels_assert_under(levels, MAX_LEVEL_COUNT)

level_count(levels) == Len(levels)

level(levels, index) == levels[index + 1]

leaves(levels) == level(levels, 0)

leaf_count(levels) == level_len(leaves(levels))

tree_is_empty(levels) == level_count(levels) = 1 /\ level_is_empty(leaves(levels))

root(levels) == level(levels, level_count(levels) - 1)

root_hash(levels) ==
    LET r == get_hash_at(root(levels), 0)
    IN  IF r.ok THEN r ELSE Err("NodeDoesNotExist")

\* every level one deeper, then a fresh root level pushed at the end
inc_leaves_level_under(levels, max) ==
    IF \E i \in 1..Len(levels) : ~inc_level_under(levels[i], max).ok
    THEN Err("TooManyLevels")
    ELSE Ok(Append([i \in 1..Len(levels) |-> inc_level_under(levels[i], max).val],
                   MerkleTreeLevel_new))

inc_leaves_level(levels) == inc_leaves_level_under(levels, MAX_LEVEL_COUNT)

RECURSIVE update_from(_, _, _)
\* the loop of update_at from level i on, pos the position on level i
update_from(levels, pos, i) ==
    IF i >= level_count(levels) - 1 THEN Ok(levels)
    ELSE LET hash == hash_left_right_at(level(levels, i), pos)
             parent == try_parent_index(level(levels, i), pos)
         IN  IF ~hash.ok THEN hash
             ELSE IF ~parent.ok THEN parent
             ELSE LET set == set_hash_at(level(levels, i + 1), parent.val, hash.val)
                  IN  IF ~set.ok THEN set
                      ELSE update_from([levels EXCEPT ![i + 2] = set.val],
                                       parent.val, i + 1)

update_at_first_leaf(levels, index) == update_from(levels, 0, 0)

update_at(levels, index) == update_from(levels, index, 0)

\* add_leaf: Ok([levels, index]) or Err; a failed assertion is Err("panic")
add_leaf_under(levels, hash, max) ==
    IF ~levels_assert_under(levels, max) THEN Err("panic")
    ELSE
    LET grown == IF is_full(leaves(levels)) \/ tree_is_empty(levels)
                 THEN inc_leaves_level_under(levels, max)
                 ELSE Ok(levels)
    IN  IF ~grown.ok THEN grown
        ELSE IF ~levels_assert_under(grown.val, max) THEN Err("panic")
        ELSE
        LET added == add_hash(leaves(grown.val), hash)
        IN  IF ~added.ok THEN added
            ELSE
            LET with_leaf == [grown.val EXCEPT ![1] = added.val]
                new_leaf_index == level_len(added.val) - 1
                updated == update_at(with_leaf, new_leaf_index)
            IN  IF ~updated.ok THEN updated
                ELSE Ok([levels |-> updated.val, index |-> new_leaf_index])

add_leaf(levels, hash) == add_leaf_under(levels, hash, MAX_LEVEL_COUNT)

(***************************************************************************)
(* MerkleProof (crates/common/src/merkle_proof.rs): [root, hashes], each   *)
(* hash a record [left, hash].                                             *)
(***************************************************************************)
new_left_tagged_right(hash) == [left |-> FALSE, hash |-> hash]

new_left(hash) == [left |-> TRUE, hash |-> hash]
new_right(hash) == [left |-> FALSE, hash |-> hash]

from_raw_parts(r, hashes) == [root |-> r, hashes |-> hashes]

\* MerkleProof::with_hashes is called by proof_at and defined in no source
\* file: the proof carries the root current when it is computed (spec 4.1)
with_hashes(levels, hashes) ==
    from_raw_parts(IF root_hash(levels).ok THEN root_hash(levels).val ELSE <<>>,
                   hashes)

RECURSIVE proof_from(_, _, _, _)
\* the loop of proof_at from level i on, pos the position on level i
proof_from(levels, pos, i, proof) ==
    IF i >= level_count(levels) - 1 THEN Ok(proof)
    ELSE LET l == level(levels, i)
             sibling == sibling_index(pos)
             parent == try_parent_index(l, pos)
         IN  IF sibling > level_len(l) THEN Err("NodeDoesNotExist")
             ELSE IF ~parent.ok THEN parent
             ELSE IF sibling = level_len(l)
                  THEN IF sibling # pos + 1 THEN Err("panic")
                       ELSE proof_from(levels, parent.val, i + 1,
                                       Append(proof, new_right(null_hash)))
                  ELSE IF sibling = pos + 1
                       THEN proof_from(levels, parent.val, i + 1,
                                       Append(proof, new_right(l.hashes[sibling + 1])))
                       ELSE proof_from(levels, parent.val, i + 1,
                                       Append(proof, new_left(l.hashes[sibling + 1])))

proof_at(levels, index) ==
    IF ~levels_assert(levels) THEN Err("panic")
    ELSE IF tree_is_empty(levels) THEN Err("TreeEmpty")
    ELSE IF index >= leaf_count(levels) THEN Err("NodeDoesNotExist")
    ELSE LET hashes == proof_from(levels, index, 0, <<>>)
         IN  IF ~hashes.ok THEN hashes
             ELSE Ok(with_hashes(levels, hashes.val))

RECURSIVE verify_from(_, _, _)
\* the loop of verify: h the running digest, i the next proof entry (Rust index)
verify_from(proof, h, i) ==
    IF i >= Len(proof.hashes) THEN h
    ELSE verify_from(proof,
                     IF proof.hashes[i + 1].left
                     THEN Sha256(proof.hashes[i + 1].hash \o h)
                     ELSE Sha256(h \o proof.hashes[i + 1].hash),
                     i + 1)

\* MerkleProof::verify: the digest the proof recomputes from input
verify_digest(proof, input) == verify_from(proof, input, 0)

verify(proof, input) ==
    IF Len(proof.hashes) = 0 THEN FALSE
    ELSE verify_digest(proof, input) = proof.root

(***************************************************************************)
(* bincode of a MerkleProof (encode_bin, decode_bin): the fields in their  *)
(* order of declaration, a Vec as its length followed by its elements, a   *)
(* bool as one byte.  A length is written here in unary, "1" n times and   *)
(* then "0".                                                               *)
(***************************************************************************)
EncLen(n) == [i \in 1..n |-> "1"] \o <<"0">>

EncVec(v) == EncLen(Len(v)) \o v

EncBool(b) == <<IF b THEN "T" ELSE "F">>

RECURSIVE EncHashes(_, _)
EncHashes(hashes, i) ==
    IF i > Len(hashes) THEN <<>>
    ELSE EncBool(hashes[i].left) \o EncVec(hashes[i].hash) \o EncHashes(hashes, i + 1)

encode_bin_skips_root(proof) ==
    EncVec(<<>>) \o EncLen(Len(proof.hashes)) \o EncHashes(proof.hashes, 1)

\* MerkleProof::encode_bin
encode_bin(proof) ==
    EncVec(proof.root) \o EncLen(Len(proof.hashes)) \o EncHashes(proof.hashes, 1)

\* the result of reading one value: the value and the position after it
Read(v, next) == [ok |-> TRUE, val |-> v, next |-> next]
ReadFailed == [ok |-> FALSE, val |-> <<>>, next |-> 0]

RECURSIVE DecLen(_, _, _)
DecLen(b, pos, n) ==
    IF pos > Len(b) THEN ReadFailed
    ELSE IF b[pos] = "0" THEN Read(n, pos + 1)
    ELSE IF b[pos] = "1" THEN DecLen(b, pos + 1, n + 1)
    ELSE ReadFailed

DecVec(b, pos) ==
    LET n == DecLen(b, pos, 0)
    IN  IF ~n.ok \/ n.next + n.val - 1 > Len(b) THEN ReadFailed
        ELSE Read(SubSeq(b, n.next, n.next + n.val - 1), n.next + n.val)

DecBool(b, pos) ==
    IF pos > Len(b) \/ b[pos] \notin {"T", "F"} THEN ReadFailed
    ELSE Read(b[pos] = "T", pos + 1)

RECURSIVE DecHashes(_, _, _, _)
DecHashes(b, pos, n, acc) ==
    IF n = 0 THEN Read(acc, pos)
    ELSE LET l == DecBool(b, pos)
             h == DecVec(b, l.next)
         IN  IF ~l.ok THEN ReadFailed
             ELSE IF ~h.ok THEN ReadFailed
             ELSE DecHashes(b, h.next, n - 1,
                            Append(acc, [left |-> l.val, hash |-> h.val]))

\* MerkleProof::decode_bin; bytes after the value are ignored
decode_bin(encoded) ==
    LET r == DecVec(encoded, 1)
        n == DecLen(encoded, r.next, 0)
        hs == DecHashes(encoded, n.next, n.val, <<>>)
    IN  IF ~r.ok THEN Err("MerkleProofDecodeBin")
        ELSE IF ~n.ok THEN Err("MerkleProofDecodeBin")
        ELSE IF ~hs.ok THEN Err("MerkleProofDecodeBin")
        ELSE Ok(from_raw_parts(r.val, hs.val))

(***************************************************************************)
(* State.                                                                  *)
(***************************************************************************)
VARIABLES
    tree,       \* MemDbInner.tree.levels
    entries,    \* MemDbInner.entries: the filenames, Rust index i at i + 1
    lock,       \* the RwLock of MemDb: 0, or the upload call holding write()
    files_db,   \* <files_db_dir>/<i>: the content of the file, or NoFile
    tmp_file,   \* <files_tmp_dir>/<tmp_filename> of each upload call
    db_bin,     \* <db_dir>/db.bin: NoDb, DbTruncated or the saved MemDbInner
    up,         \* the task of each upload call, the items it has read from
                \* its request stream so far (stream) and, once the call has
                \* ended, whether these followed the protocol (protocol_ok)
                \* and the item on which it ended in an error (last); code is
                \* the code of the tonic::Status the handler answers with
    acquired,   \* the upload calls in the order they acquired write()
    obs,        \* the response of the count, root, proof or verify call just made
    dl,         \* the producer task of the download call, what the handler
                \* answered (rpc) and the messages the task has sent (sent)
    chan,       \* the mpsc channel of the download call: the messages buffered
    rx          \* the client of the download call: what it has received

vars == <<tree, entries, lock, files_db, tmp_file, db_bin, up, acquired, obs,
          dl, chan, rx>>

\* the variables of the download call
dlvars == <<dl, chan, rx>>

Calls == 1..MaxCalls

\* a path that names no file
NoFile == <<"-">>

\* db.bin is missing, or File::create emptied it and nothing reached it
NoDb == [state |-> "missing", bytes |-> <<>>]
DbTruncated == [state |-> "truncated", bytes |-> <<>>]

\* the contents a client may declare and send: at most MaxChunks chunks
RECURSIVE ByteSeqs(_)
ByteSeqs(n) ==
    IF n = 0 THEN {<<>>}
    ELSE ByteSeqs(n - 1) \cup {Append(s, x) : s \in {t \in ByteSeqs(n - 1) : Len(t) = n - 1}, x \in Bytes}

Contents == ByteSeqs(MaxChunks)

Digests == {Sha256(c) : c \in Contents}

\* the Chunk payloads
Chunks == {<<x>> : x \in Bytes}

\* the filenames of Metadata messages
Filenames == {<<>>, <<"f">>}

\* what request_stream.next().await yields: None, Some(Err(status)), or
\* Some(Ok(UploadRequest)) with its type absent, Metadata, Sha256 or Chunk
Msg(type, data) == [type |-> type, data |-> data]
StreamItems ==
    {Msg("None", <<>>), Msg("Status", <<>>), Msg("Untyped", <<>>)}
    \cup {Msg("Metadata", f) : f \in Filenames}
    \cup {Msg("Sha256", h) : h \in Digests}
    \cup {Msg("Chunk", c) : c \in Chunks}

\* no call was just answered
NoObs == [op |-> "none", index |-> 0, ok |-> TRUE, val |-> <<>>,
          input |-> <<>>, verified |-> FALSE, task_err |-> "none"]

DlIdle == [pc |-> "idle", index |-> 0, pending |-> Msg("None", <<>>),
           file |-> <<>>, offset |-> 0, n |-> 0, err |-> "none",
           rpc |-> "none", sent |-> <<>>]

\* the client of the download: the stream not dropped, the Entry it decoded,
\* the bytes of the Chunks it wrote
RxIdle == [open |-> TRUE, got_entry |-> FALSE, filename |-> <<>>,
           proof |-> Err("none"), bytes |-> <<>>]

UpIdle == [pc |-> "idle", filename |-> <<>>, file_hash |-> <<>>, hasher |-> <<>>,
           nchunks |-> 0, index |-> 0, root |-> <<>>, err |-> "none",
           stream |-> <<>>, protocol_ok |-> FALSE, last |-> Msg("None", <<>>),
           code |-> "Ok"]

Init ==
    /\ tree = MerkleTree_new
    /\ entries = <<>>
    /\ lock = 0
    /\ files_db = [i \in 0..(MaxCalls - 1) |-> NoFile]
    /\ tmp_file = [c \in Calls |-> NoFile]
    /\ db_bin = NoDb
    /\ up = [c \in Calls |-> UpIdle]
    /\ acquired = <<>>
    /\ obs = NoObs
    /\ dl = DlIdle
    /\ chan = <<>>
    /\ rx = RxIdle

(***************************************************************************)
(* bincode of a MemDbInner (save, try_load): entries, then tree; a String  *)
(* and a Vec<u8> as the length followed by the bytes, the u8 level as one  *)
(* value, written here in unary like a length.                             *)
(***************************************************************************)
RECURSIVE EncEntries(_, _)
EncEntries(es, i) ==
    IF i > Len(es) THEN <<>> ELSE EncVec(es[i]) \o EncEntries(es, i + 1)

RECURSIVE EncDigests(_, _)
EncDigests(hs, i) ==
    IF i > Len(hs) THEN <<>> ELSE EncVec(hs[i]) \o EncDigests(hs, i + 1)

EncLevel(l) == EncLen(l.level) \o EncLen(Len(l.hashes)) \o EncDigests(l.hashes, 1)

RECURSIVE EncLevels(_, _)
EncLevels(levels, i) ==
    IF i > Len(levels) THEN <<>> ELSE EncLevel(levels[i]) \o EncLevels(levels, i + 1)

\* bincode::serialize_into(&mut writer, self)
serialize_into(es, levels) ==
    EncLen(Len(es)) \o EncEntries(es, 1)
        \o EncLen(Len(levels)) \o EncLevels(levels, 1)

\* n values, each read as a Vec<u8>
RECURSIVE DecVecs(_, _, _, _)
DecVecs(b, pos, n, acc) ==
    IF n = 0 THEN Read(acc, pos)
    ELSE LET v == DecVec(b, pos)
         IN  IF ~v.ok THEN ReadFailed
             ELSE DecVecs(b, v.next, n - 1, Append(acc, v.val))

DecLevel(b, pos) ==
    LET d == DecLen(b, pos, 0)
        n == DecLen(b, d.next, 0)
        hs == DecVecs(b, n.next, n.val, <<>>)
    IN  IF ~d.ok THEN ReadFailed
        ELSE IF ~n.ok THEN ReadFailed
        ELSE IF ~hs.ok THEN ReadFailed
        ELSE Read([level |-> d.val, hashes |-> hs.val], hs.next)

RECURSIVE DecLevels(_, _, _, _)
DecLevels(b, pos, n, acc) ==
    IF n = 0 THEN Read(acc, pos)
    ELSE LET l == DecLevel(b, pos)
         IN  IF ~l.ok THEN ReadFailed
             ELSE DecLevels(b, l.next, n - 1, Append(acc, l.val))

\* bincode::deserialize_from(reader), its error mapped to DbLoad
deserialize_from(b) ==
    LET ne == DecLen(b, 1, 0)
        es == DecVecs(b, ne.next, ne.val, <<>>)
        nl == DecLen(b, es.next, 0)
        ls == DecLevels(b, nl.next, nl.val, <<>>)
    IN  IF ~ne.ok THEN Err("DbLoad")
        ELSE IF ~es.ok THEN Err("DbLoad")
        ELSE IF ~nl.ok THEN Err("DbLoad")
        ELSE IF ~ls.ok THEN Err("DbLoad")
        ELSE Ok([entries |-> es.val, tree |-> ls.val])

\* MemDbInner::default()
MemDbInner_default == [entries |-> <<>>, tree |-> MerkleTree_new]

try_load_without_exists_check(db) == deserialize_from(db.bytes)

\* MemDbInner::try_load of the file db
try_load(db) ==
    IF db.state = "missing" THEN Ok(MemDbInner_default)
    ELSE deserialize_from(db.bytes)

(***************************************************************************)
(* MemDbInner (crates/mrklar/src/mem_db.rs).                               *)
(***************************************************************************)
num_entries == Len(entries)

merkle_root == root_hash(tree)

compute_proof(file_index) == proof_at(tree, file_index)

compute_proof_and_entry(file_index) ==
    IF file_index >= num_entries THEN Err("FileIndexDoesNotExist")
    ELSE LET proof == compute_proof(file_index)
         IN  IF proof.ok
             THEN Ok([filename |-> entries[file_index + 1], proof |-> proof.val])
             ELSE Err("MerkleTree")

(***************************************************************************)
(* FileService::upload (crates/mrklar/src/file_service.rs).                *)
(***************************************************************************)
\* get_upload_request_type: the error of an item that carries no type
request_type_error(item) ==
    IF item.type = "None" THEN "EmptyMessage"
    ELSE IF item.type = "Status" THEN "Status"
    ELSE IF item.type = "Untyped" THEN "UndefinedMessageType"
    ELSE "none"

request_error_any_type(item, want) == request_type_error(item)

request_error_undefined(item, want) ==
    IF request_type_error(item) # "none" THEN request_type_error(item)
    ELSE IF item.type # want THEN "UndefinedMessageType"
    ELSE "none"

\* upload_request_file_metadata, _file_sha256, _chunk: the error of an item
\* read where a message of type `want` is expected
request_error(item, want) ==
    IF request_type_error(item) # "none" THEN request_type_error(item)
    ELSE IF item.type # want THEN "UnknownMessageType"
    ELSE "none"

RECURSIVE ChunkBytes(_, _)
\* the bytes of the Chunk messages of stream s from position i on
ChunkBytes(s, i) ==
    IF i > Len(s) THEN <<>>
    ELSE (IF s[i].type = "Chunk" THEN s[i].data ELSE <<>>) \o ChunkBytes(s, i + 1)

\* the stream of the protocol: one Metadata with a filename, one Sha256,
\* Chunks, the end of the stream, and the digest is that of the bytes
ProtocolStream(s) ==
    /\ Len(s) >= 3
    /\ s[1].type = "Metadata" /\ s[1].data # <<>>
    /\ s[2].type = "Sha256"
    /\ \A i \in 3..(Len(s) - 1) : s[i].type = "Chunk"
    /\ s[Len(s)].type = "None"
    /\ s[2].data = Sha256(ChunkBytes(s, 3))

\* impl From<ServerError> for Status: the code of the status
status_from(e) ==
    IF e \in {"UploadInvalidHash", "UploadInvalidFilename"} THEN "InvalidArgument"
    ELSE IF e \in {"FileIndexDoesNotExist", "DbDirDoesNotExist", "FilesDirDoesNotExist"}
         THEN "NotFound"
    ELSE IF e = "Io" THEN "Unknown"
    ELSE IF e = "Status" THEN "Status"
    ELSE "Internal"

\* upload: Err(e) => Err(Status::internal(e.to_string())), also for the
\* create_dirs error and the JoinError
upload_status(e) == "Internal"

\* the task ends with Err(e): its locals are dropped
Failed(c, e) ==
    up' = [up EXCEPT ![c] = [UpIdle EXCEPT !.pc = "done", !.err = e,
                                           !.code = upload_status(e),
                                           !.protocol_ok = ProtocolStream(up[c].stream)]]

\* the task ends with Err(e) on the item it has just read
FailedOn(c, item, e) ==
    up' = [up EXCEPT ![c] = [UpIdle EXCEPT !.pc = "done", !.err = e, !.last = item,
                                           !.code = upload_status(e),
                                           !.protocol_ok = ProtocolStream(Append(up[c].stream, item))]]

\* the handler: create_dirs, the tmp path, and the spawn of the task
UploadStart(c) ==
    /\ up[c].pc = "idle"
    /\ \A d \in Calls : d < c => up[d].pc # "idle"
    /\ \/ up' = [up EXCEPT ![c].pc = "metadata"]
       \/ Failed(c, "Io")
    /\ obs' = NoObs
    /\ UNCHANGED <<tree, entries, lock, files_db, tmp_file, db_bin, acquired, dlvars>>

UploadMetadata_any_filename(c) ==
    /\ up[c].pc = "metadata"
    /\ \E item \in StreamItems :
         IF request_error(item, "Metadata") # "none"
         THEN FailedOn(c, item, request_error(item, "Metadata"))
         ELSE up' = [up EXCEPT ![c].pc = "sha256", ![c].filename = item.data,
                               ![c].stream = Append(@, item)]
    /\ obs' = NoObs
    /\ UNCHANGED <<tree, entries, lock, files_db, tmp_file, db_bin, acquired, dlvars>>

\* 1- read file metadata
UploadMetadata(c) ==
    /\ up[c].pc = "metadata"
    /\ \E item \in StreamItems :
         IF request_error(item, "Metadata") # "none"
         THEN FailedOn(c, item, request_error(item, "Metadata"))
         ELSE IF item.data = <<>>
              THEN FailedOn(c, item, "UploadInvalidFilename")
              ELSE up' = [up EXCEPT ![c].pc = "sha256", ![c].filename = item.data,
                                    ![c].stream = Append(@, item)]
    /\ obs' = NoObs
    /\ UNCHANGED <<tree, entries, lock, files_db, tmp_file, db_bin, acquired, dlvars>>

\* 2- read file sha256
UploadSha256(c) ==
    /\ up[c].pc = "sha256"
    /\ \E item \in StreamItems :
         IF request_error(item, "Sha256") # "none"
         THEN FailedOn(c, item, request_error(item, "Sha256"))
         ELSE up' = [up EXCEPT ![c].pc = "create", ![c].file_hash = item.data,
                               ![c].stream = Append(@, item)]
    /\ obs' = NoObs
    /\ UNCHANGED <<tree, entries, lock, files_db, tmp_file, db_bin, acquired, dlvars>>

UploadCreate_holds_lock(c) ==
    /\ up[c].pc = "create"
    /\ lock = 0
    /\ lock' = c
    /\ up' = [up EXCEPT ![c].pc = "chunks"]
    /\ tmp_file' = [tmp_file EXCEPT ![c] = <<>>]
    /\ obs' = NoObs
    /\ UNCHANGED <<tree, entries, files_db, db_bin, acquired, dlvars>>

\* 3- tokio::fs::File::create(&tmp_path)
UploadCreate(c) ==
    /\ up[c].pc = "create"
    /\ \/ /\ up' = [up EXCEPT ![c].pc = "chunks"]
          /\ tmp_file' = [tmp_file EXCEPT ![c] = <<>>]
       \/ /\ Failed(c, "Io")
          /\ UNCHANGED tmp_file
    /\ obs' = NoObs
    /\ UNCHANGED <<tree, entries, lock, files_db, db_bin, acquired, dlvars>>

remove_tmp_forgotten(c) == tmp_file' = tmp_file

\* if task failed, remove temporary file
remove_tmp(c) == tmp_file' = [tmp_file EXCEPT ![c] = NoFile]

\* 4- one turn of the loop: the next item, hasher.update, write_all
UploadChunk(c) ==
    /\ up[c].pc = "chunks"
    /\ \E item \in StreamItems :
         /\ item.type # "None"
         /\ item.type = "Chunk" => up[c].nchunks < MaxChunks
         /\ IF request_error(item, "Chunk") # "none"
            THEN FailedOn(c, item, request_error(item, "Chunk")) /\ remove_tmp(c)
            ELSE \/ /\ up' = [up EXCEPT ![c].hasher = @ \o item.data,
                                        ![c].nchunks = @ + 1,
                                        ![c].stream = Append(@, item)]
                    /\ tmp_file' = [tmp_file EXCEPT ![c] = @ \o item.data]
                 \/ FailedOn(c, item, "Io") /\ remove_tmp(c)
    /\ obs' = NoObs
    /\ UNCHANGED <<tree, entries, lock, files_db, db_bin, acquired, dlvars>>

\* the stream ends (next.is_none()): break, then tokio_file.sync_all()
UploadSync(c) ==
    /\ up[c].pc = "chunks"
    /\ \/ /\ up' = [up EXCEPT ![c].pc = "compare",
                                ![c].stream = Append(@, Msg("None", <<>>))]
          /\ UNCHANGED tmp_file
       \/ FailedOn(c, Msg("None", <<>>), "Io") /\ remove_tmp(c)
    /\ obs' = NoObs
    /\ UNCHANGED <<tree, entries, lock, files_db, db_bin, acquired, dlvars>>

hash_matches_always(c) == TRUE

\* hash != file_hash, negated
hash_matches(c) == Sha256(up[c].hasher) = up[c].file_hash

\* Compare hash
UploadCompare(c) ==
    /\ up[c].pc = "compare"
    /\ IF hash_matches(c)
       THEN up' = [up EXCEPT ![c].pc = "commit"] /\ UNCHANGED tmp_file
       ELSE Failed(c, "UploadInvalidHash") /\ remove_tmp(c)
    /\ obs' = NoObs
    /\ UNCHANGED <<tree, entries, lock, files_db, db_bin, acquired, dlvars>>

(***************************************************************************)
(* MemDb::add_file: the commit, under the write lock.                      *)
(***************************************************************************)
AddFileLock_no_exclusion(c) ==
    /\ up[c].pc = "commit"
    /\ lock' = c
    /\ acquired' = Append(acquired, c)
    /\ up' = [up EXCEPT ![c].pc = "add_leaf"]
    /\ obs' = NoObs
    /\ UNCHANGED <<tree, entries, files_db, tmp_file, db_bin, dlvars>>

\* self.inner.write()
AddFileLock(c) ==
    /\ up[c].pc = "commit"
    /\ lock = 0
    /\ lock' = c
    /\ acquired' = Append(acquired, c)
    /\ up' = [up EXCEPT ![c].pc = "add_leaf"]
    /\ obs' = NoObs
    /\ UNCHANGED <<tree, entries, files_db, tmp_file, db_bin, dlvars>>

AddFileFailed_keeps_guard(c) ==
    /\ Failed(c, "Unexpected")
    /\ remove_tmp(c)
    /\ UNCHANGED lock

\* add_file failed: remove the tmp file, drop the guard; upload maps the
\* error to Unexpected
AddFileFailed(c) ==
    /\ Failed(c, "Unexpected")
    /\ remove_tmp(c)
    /\ lock' = 0

\* self.tree.add_leaf(hash)
AddFileAddLeaf(c) ==
    /\ up[c].pc = "add_leaf"
    /\ \E r \in {add_leaf(tree, up[c].file_hash)} :
           IF r.ok
           THEN /\ tree' = r.val.levels
                /\ up' = [up EXCEPT ![c].pc = "push_entry", ![c].index = r.val.index]
                /\ UNCHANGED <<lock, tmp_file>>
           ELSE AddFileFailed(c) /\ UNCHANGED tree
    /\ obs' = NoObs
    /\ UNCHANGED <<entries, files_db, db_bin, acquired, dlvars>>

AddFilePushEntry_no_push(c) ==
    /\ up[c].pc = "push_entry"
    /\ up' = [up EXCEPT ![c].pc = "rename", ![c].root = root_hash(tree).val]
    /\ obs' = NoObs
    /\ UNCHANGED <<tree, entries, lock, files_db, tmp_file, db_bin, acquired, dlvars>>

\* self.entries.push(..), the assertion, and the new root; a failed assertion
\* unwinds the task: the guard is dropped, the tmp file stays, and the handler
\* answers for the JoinError
AddFilePushEntry(c) ==
    /\ up[c].pc = "push_entry"
    /\ entries' = Append(entries, up[c].filename)
    /\ IF up[c].index = Len(entries) /\ root_hash(tree).ok
       THEN /\ up' = [up EXCEPT ![c].pc = "rename", ![c].root = root_hash(tree).val]
            /\ UNCHANGED lock
       ELSE /\ Failed(c, "JoinError")
            /\ lock' = 0
    /\ obs' = NoObs
    /\ UNCHANGED <<tree, files_db, tmp_file, db_bin, acquired, dlvars>>

AddFileRename_rolls_back(c) ==
    /\ up[c].pc = "rename"
    /\ \/ /\ files_db' = [files_db EXCEPT ![up[c].index] = tmp_file[c]]
          /\ tmp_file' = [tmp_file EXCEPT ![c] = NoFile]
          /\ up' = [up EXCEPT ![c].pc = "save"]
          /\ UNCHANGED <<lock, entries>>
       \/ /\ AddFileFailed(c)
          /\ entries' = SubSeq(entries, 1, Len(entries) - 1)
          /\ UNCHANGED files_db
    /\ obs' = NoObs
    /\ UNCHANGED <<tree, db_bin, acquired, dlvars>>

\* std::fs::rename(tmp_path, dst_path)
AddFileRename(c) ==
    /\ up[c].pc = "rename"
    /\ \/ /\ files_db' = [files_db EXCEPT ![up[c].index] = tmp_file[c]]
          /\ tmp_file' = [tmp_file EXCEPT ![c] = NoFile]
          /\ up' = [up EXCEPT ![c].pc = "save"]
          /\ UNCHANGED lock
       \/ AddFileFailed(c) /\ UNCHANGED files_db
    /\ obs' = NoObs
    /\ UNCHANGED <<tree, entries, db_bin, acquired, dlvars>>

\* MemDbInner::save returning Ok: File::create truncates db.bin, serialize_into
\* writes into the BufWriter, and the BufWriter is dropped without flush(): the
\* bytes still buffered are written at the drop, where a failed write is
\* ignored
save ==
    db_bin' \in {[state |-> "saved", bytes |-> serialize_into(entries, tree)],
                 DbTruncated}

AddFileSave_keeps_lock(c) ==
    /\ up[c].pc = "save"
    /\ save
    /\ up' = [up EXCEPT ![c].pc = "done", ![c].hasher = <<>>, ![c].nchunks = 0,
                                ![c].stream = <<>>,
                                ![c].protocol_ok = ProtocolStream(up[c].stream)]
    /\ obs' = NoObs
    /\ UNCHANGED <<tree, entries, lock, files_db, tmp_file, acquired, dlvars>>

\* self.save(config), then Ok((file_index, root_hash)) and the guard dropped
AddFileSave(c) ==
    /\ up[c].pc = "save"
    /\ \/ /\ save
          /\ up' = [up EXCEPT ![c].pc = "done", ![c].hasher = <<>>, ![c].nchunks = 0,
                                ![c].stream = <<>>,
                                ![c].protocol_ok = ProtocolStream(up[c].stream)]
          /\ lock' = 0
          /\ UNCHANGED tmp_file
       \/ /\ db_bin' \in {db_bin, DbTruncated}
          /\ AddFileFailed(c)
    /\ obs' = NoObs
    /\ UNCHANGED <<tree, entries, files_db, acquired, dlvars>>

(***************************************************************************)
(* The unary reads and the proof call, each under self.inner.read().       *)
(***************************************************************************)
Observed(op, index, r) ==
    obs' = [NoObs EXCEPT !.op = op, !.index = index, !.ok = r.ok,
                         !.val = IF r.ok THEN r.val ELSE <<r.err>>]

Count_without_hold ==
    /\ Observed("count", 0, Ok(<<num_entries>>))
    /\ UNCHANGED <<tree, entries, lock, files_db, tmp_file, db_bin, up, acquired, dlvars>>

\* FileService::count
Count ==
    /\ lock = 0
    /\ Observed("count", 0, Ok(<<num_entries>>))
    /\ UNCHANGED <<tree, entries, lock, files_db, tmp_file, db_bin, up, acquired, dlvars>>

\* FileService::root
Root ==
    /\ lock = 0
    /\ Observed("root", 0, merkle_root)
    /\ UNCHANGED <<tree, entries, lock, files_db, tmp_file, db_bin, up, acquired, dlvars>>

\* FileService::proof: the handler answers Ok(stream); the task it spawned
\* computes the proof under read() and sends it as the one message of the
\* stream, or ends on its error, which nothing reads (task_err), and the
\* stream ends with no message
Proof ==
    /\ lock = 0
    /\ \E i \in 0..MaxCalls :
         \E r \in {compute_proof_and_entry(i)} :
             obs' = [NoObs EXCEPT !.op = "proof", !.index = i, !.ok = TRUE,
                                  !.val = IF r.ok THEN <<encode_bin(r.val.proof)>>
                                          ELSE <<>>,
                                  !.task_err = IF r.ok THEN "none" ELSE r.err]
    /\ UNCHANGED <<tree, entries, lock, files_db, tmp_file, db_bin, up, acquired, dlvars>>

\* the steps of the task of upload call c
UploadNext(c) ==
    \/ UploadStart(c) \/ UploadMetadata(c) \/ UploadSha256(c)
    \/ UploadCreate(c) \/ UploadChunk(c) \/ UploadSync(c) \/ UploadCompare(c)
    \/ AddFileLock(c) \/ AddFileAddLeaf(c) \/ AddFilePushEntry(c)
    \/ AddFileRename(c) \/ AddFileSave(c)

Next == \E c \in Calls : UploadNext(c)

\* the server with clients that upload
Spec == Init /\ [][Next]_vars

ReadNext == Next \/ Count \/ Root \/ Proof

\* the server with clients that upload and clients that read
ReadSpec == Init /\ [][ReadNext]_vars

RootNext == Next \/ Root

\* the server with clients that upload and clients that ask for the root
RootSpec == Init /\ [][RootNext]_vars

(***************************************************************************)
(* FileService::download: the task that produces the stream, the channel,  *)
(* and the client that consumes it (MrklarApi::download).                  *)
(***************************************************************************)
upvars == <<tree, entries, lock, files_db, tmp_file, db_bin, up, acquired, obs>>

\* tokio_file.take(limit) and read_to_end: the bytes from offset on, at most
\* limit of them
read_to_end(file, offset, limit) ==
    SubSeq(file, offset + 1,
           IF offset + limit < Len(file) THEN offset + limit ELSE Len(file))

RECURSIVE chunk_loop_send_first(_, _, _, _)
chunk_loop_send_first(file, offset, size, out) ==
    LET chunk == read_to_end(file, offset, size)
    IN  IF Len(chunk) < size THEN Append(out, chunk)
        ELSE chunk_loop_send_first(file, offset + Len(chunk), size, Append(out, chunk))

RECURSIVE chunk_loop(_, _, _, _)
\* the loop that reads a file chunk by chunk and sends each chunk: out is
\* what was sent so far; n == 0 breaks before the send, n < size after it
chunk_loop(file, offset, size, out) ==
    LET chunk == read_to_end(file, offset, size)
    IN  IF Len(chunk) = 0 THEN out
        ELSE IF Len(chunk) < size THEN Append(out, chunk)
        ELSE chunk_loop(file, offset + Len(chunk), size, Append(out, chunk))

DownloadRead_no_advance ==
    /\ dl.pc = "read"
    /\ Len(dl.sent) <= Len(dl.file) + 1
    /\ LET chunk == read_to_end(dl.file, dl.offset, chunk_size)
       IN  IF Len(chunk) = 0
           THEN dl' = [dl EXCEPT !.pc = "done", !.err = "none"]
           ELSE dl' = [dl EXCEPT !.pc = "send_chunk", !.n = Len(chunk),
                                 !.pending = Msg("Chunk", chunk)]
    /\ UNCHANGED <<upvars, chan, rx>>

\* the task ended: tx is dropped, the stream ends after what is buffered
DlDone(e) == dl' = [dl EXCEPT !.pc = "done", !.err = e, !.pending = Msg("None", <<>>)]

\* the handler: mpsc::channel(channel_size), tokio::spawn, Ok(stream)
DownloadStart ==
    /\ dl.pc = "idle"
    /\ \E i \in 0..MaxCalls : dl' = [dl EXCEPT !.pc = "entry", !.index = i,
                                                 !.rpc = "Ok"]
    /\ UNCHANGED <<upvars, chan, rx>>

\* compute_proof_and_entry under read(), then new_entry(filename, proof)
DownloadEntry ==
    /\ dl.pc = "entry"
    /\ lock = 0
    /\ UNCHANGED <<upvars, chan, rx>>
    /\ \E r \in {compute_proof_and_entry(dl.index)} :
         IF r.ok
         THEN dl' = [dl EXCEPT !.pc = "send_entry",
                               !.pending = [type |-> "Entry",
                                            filename |-> r.val.filename,
                                            merkle_proof |-> encode_bin(r.val.proof)]]
         ELSE DlDone(r.err)

DownloadSend_unbounded ==
    /\ dl.pc \in {"send_entry", "send_chunk"}
    /\ IF ~rx.open
       THEN DlDone("SendError") /\ UNCHANGED chan
       ELSE /\ chan' = Append(chan, dl.pending)
            /\ IF dl.pc = "send_chunk" /\ dl.n < chunk_size
               THEN dl' = [dl EXCEPT !.pc = "done", !.err = "none", !.sent = Append(@, dl.pending),
                                     !.pending = Msg("None", <<>>)]
               ELSE dl' = [dl EXCEPT !.pc = IF dl.pc = "send_entry" THEN "open" ELSE "read",
                                     !.sent = Append(@, dl.pending),
                                     !.pending = Msg("None", <<>>)]
    /\ UNCHANGED <<upvars, rx>>

DownloadSend_ignores_drop ==
    /\ dl.pc \in {"send_entry", "send_chunk"}
    /\ Len(chan) < channel_size
    /\ chan' = Append(chan, dl.pending)
    /\ IF dl.pc = "send_chunk" /\ dl.n < chunk_size
       THEN dl' = [dl EXCEPT !.pc = "done", !.err = "none", !.sent = Append(@, dl.pending),
                             !.pending = Msg("None", <<>>)]
       ELSE dl' = [dl EXCEPT !.pc = IF dl.pc = "send_entry" THEN "open" ELSE "read",
                             !.sent = Append(@, dl.pending),
                             !.pending = Msg("None", <<>>)]
    /\ UNCHANGED <<upvars, rx>>

DownloadSend_no_wait ==
    /\ dl.pc \in {"send_entry", "send_chunk"}
    /\ IF ~rx.open
       THEN DlDone("SendError") /\ UNCHANGED chan
       ELSE /\ chan' = IF Len(chan) < channel_size THEN Append(chan, dl.pending) ELSE chan
            /\ IF dl.pc = "send_chunk" /\ dl.n < chunk_size
               THEN dl' = [dl EXCEPT !.pc = "done", !.err = "none", !.sent = Append(@, dl.pending),
                                     !.pending = Msg("None", <<>>)]
               ELSE dl' = [dl EXCEPT !.pc = IF dl.pc = "send_entry" THEN "open" ELSE "read",
                                     !.sent = Append(@, dl.pending),
                                     !.pending = Msg("None", <<>>)]
    /\ UNCHANGED <<upvars, rx>>

\* tx.send(Ok(response)).await: waits for room, fails if rx was dropped
DownloadSend ==
    /\ dl.pc \in {"send_entry", "send_chunk"}
    /\ IF ~rx.open
       THEN DlDone("SendError") /\ UNCHANGED chan
       ELSE /\ Len(chan) < channel_size
            /\ chan' = Append(chan, dl.pending)
            /\ IF dl.pc = "send_chunk" /\ dl.n < chunk_size
               THEN dl' = [dl EXCEPT !.pc = "done", !.err = "none", !.sent = Append(@, dl.pending),
                                     !.pending = Msg("None", <<>>)]
               ELSE dl' = [dl EXCEPT !.pc = IF dl.pc = "send_entry" THEN "open" ELSE "read",
                                     !.sent = Append(@, dl.pending),
                                     !.pending = Msg("None", <<>>)]
    /\ UNCHANGED <<upvars, rx>>

\* tokio::fs::File::open(path)
DownloadOpen ==
    /\ dl.pc = "open"
    /\ IF files_db[dl.index] = NoFile
       THEN DlDone("Io")
       ELSE dl' = [dl EXCEPT !.pc = "read", !.file = files_db[dl.index]]
    /\ UNCHANGED <<upvars, chan, rx>>

\* handle.read_to_end(&mut chunk) under the take limit; n == 0 ends the loop
DownloadRead ==
    /\ dl.pc = "read"
    /\ LET chunk == read_to_end(dl.file, dl.offset, chunk_size)
       IN  IF Len(chunk) = 0
           THEN DlDone("none")
           ELSE dl' = [dl EXCEPT !.pc = "send_chunk", !.n = Len(chunk),
                                 !.offset = @ + Len(chunk),
                                 !.pending = Msg("Chunk", chunk)]
    /\ UNCHANGED <<upvars, chan, rx>>

\* stream.message().await on the client: the Entry is decoded, a Chunk is
\* written to the output file
ClientRecv ==
    /\ rx.open
    /\ chan # <<>>
    /\ chan' = Tail(chan)
    /\ rx' = IF Head(chan).type = "Entry"
             THEN [rx EXCEPT !.got_entry = TRUE,
                             !.filename = Head(chan).filename,
                             !.proof = decode_bin(Head(chan).merkle_proof)]
             ELSE [rx EXCEPT !.bytes = @ \o Head(chan).data]
    /\ UNCHANGED <<upvars, dl>>

\* the client goes away before the stream has ended
ClientDrop ==
    /\ rx.open
    /\ dl.pc \notin {"idle", "done"}
    /\ rx' = [rx EXCEPT !.open = FALSE]
    /\ UNCHANGED <<upvars, dl, chan>>

DownloadNext ==
    \/ DownloadStart \/ DownloadEntry \/ DownloadSend \/ DownloadOpen
    \/ DownloadRead \/ ClientRecv \/ ClientDrop

DlNext == Next \/ DownloadNext

\* the server with clients that upload and a client that downloads
DlSpec == Init /\ [][DlNext]_vars

(***************************************************************************)
(* The download beside uploads that reach add_file, one call after the     *)
(* other.  The download meets the uploads only at the lock, the tree, the  *)
(* entries and the files: there the commits are serialised by the lock     *)
(* whatever the calls did before, and a call that ends before add_file has *)
(* touched nothing but its own task and its own tmp file.                  *)
(***************************************************************************)
\* no other upload call is under way
Quiet(c) == \A d \in Calls \ {c} : up[d].pc \in {"idle", "done"}

\* the steps of the task of call c before add_file
UploadStreaming(c) ==
    \/ UploadStart(c) \/ UploadMetadata(c) \/ UploadSha256(c)
    \/ UploadCreate(c) \/ UploadChunk(c) \/ UploadSync(c) \/ UploadCompare(c)

\* the steps of add_file of call c between the lock and its release
AddFileHeld(c) ==
    \/ AddFileAddLeaf(c) \/ AddFilePushEntry(c) \/ AddFileRename(c) \/ AddFileSave(c)

StreamUpload(c) ==
    \/ Quiet(c) /\ UploadStreaming(c) /\ up'[c].pc # "done"
    \/ AddFileLock(c)
    \/ AddFileHeld(c)

\* the steps of the task spawned by FileService::download
DownloadTask == DownloadEntry \/ DownloadSend \/ DownloadOpen \/ DownloadRead

StreamNext == (\E c \in Calls : StreamUpload(c)) \/ DownloadNext

StreamSpec == Init /\ [][StreamNext]_vars

\* the step of ClientRecv, by what it does to the channel
ChannelTaken == rx.open /\ chan # <<>> /\ chan' = Tail(chan)

\* the step that ends add_file, with Ok or with an error: the guard is dropped
LockReleased == lock # 0 /\ lock' = 0

\* the runtime runs a spawned task that can step; add_file is synchronous code
\* that runs from write() to the drop of the guard without awaiting; and the
\* client polls the stream as long as it holds it
StreamFairSpec ==
    /\ StreamSpec
    /\ WF_vars(DownloadTask)
    /\ WF_chan(ChannelTaken)
    /\ WF_lock(LockReleased)

(***************************************************************************)
(* Uploads that reach add_file and contend for the lock, with count and a  *)
(* download of index 0 whose client may stop receiving.  The calls consume *)
(* their streams one after the other, each in its own task and on its own  *)
(* tmp file, and wait side by side at write().                             *)
(***************************************************************************)
\* no other upload call is consuming its stream or inside add_file
Alone(c) == \A d \in Calls \ {c} : up[d].pc \in {"idle", "commit", "done"}

LockNext ==
    \/ \E c \in Calls : /\ Alone(c)
                        /\ UploadStreaming(c)
                        /\ up'[c].pc # "done"
                        /\ up'[c].file_hash \in {<<>>, Sha256(<<"a">>)}
                        /\ up'[c].nchunks <= 1
    \/ \E c \in Calls : AddFileLock(c)
    \/ \E c \in Calls : AddFileHeld(c)
    \/ Count
    \/ DownloadStart /\ dl'.index = 0
    \/ DownloadTask
    \/ ClientRecv

\* every call uploads the one-byte file, whose stream it consumes while no
\* other call consumes its own; the client of the download receives when it
\* likes, or never
LockSpec == Init /\ [][LockNext]_vars

\* the steps of add_file after tree.add_leaf, the guard held
AddFileAfterLeaf(c) == AddFilePushEntry(c) \/ AddFileRename(c) \/ AddFileSave(c)

\* add_file is synchronous code: a task that has called write() is given the
\* lock when it is free and then runs to the drop of the guard without
\* awaiting; and the runtime runs the task spawned by download when it can
\* step.  The fairness of tree.add_leaf is weak fairness of AddFileAddLeaf
\* with its enabling condition, the position of the task, written out.
\* Nothing is assumed of the client of the download
LockFairSpec ==
    /\ LockSpec
    /\ \A c \in Calls : WF_vars(AddFileLock(c))
    /\ \A c \in Calls : []<>(up[c].pc # "add_leaf") \/ []<><<AddFileAddLeaf(c)>>_vars
    /\ \A c \in Calls : WF_vars(AddFileAfterLeaf(c))
    /\ WF_vars(DownloadEntry)

(***************************************************************************)
(* The reads beside uploads that reach add_file, one call after the other: *)
(* a read takes the shared hold and meets the uploads only at the commit.  *)
(***************************************************************************)
SnapshotNext == (\E c \in Calls : StreamUpload(c)) \/ Count \/ Root \/ Proof

SnapshotSpec == Init /\ [][SnapshotNext]_vars

(***************************************************************************)
(* The four reads beside uploads that reach add_file, one call after the   *)
(* other: count, root, proof, and the snapshot of download(0).             *)
(***************************************************************************)
AtomicNext ==
    \/ SnapshotNext
    \/ DownloadStart /\ dl'.index = 0
    \/ DownloadEntry

AtomicSpec == Init /\ [][AtomicNext]_vars

(***************************************************************************)
(* The server stopped and started again: the tasks of the old process are  *)
(* gone with it, the files stay, and the archive is what try_load reads    *)
(* from db.bin.  A start whose try_load fails ends at once.                *)
(***************************************************************************)
\* the call was cut by the end of the process
Cut == [UpIdle EXCEPT !.pc = "done", !.err = "Aborted", !.code = "Unavailable"]

\* mrklar::run: MemDb::try_load(&config)? and the server built on its result
Restart ==
    /\ try_load(db_bin).ok
    /\ entries' = try_load(db_bin).val.entries
    /\ tree' = try_load(db_bin).val.tree
    /\ lock' = 0
    /\ up' = [c \in Calls |-> IF up[c].pc \in {"idle", "done"} THEN up[c] ELSE Cut]
    /\ obs' = [NoObs EXCEPT !.op = "try_load"]
    /\ UNCHANGED <<files_db, tmp_file, db_bin, acquired, dlvars>>

RestartNext == (\E c \in Calls : StreamUpload(c)) \/ Restart

\* uploads that reach add_file, one call after the other, on a server that
\* may be restarted at any moment
RestartSpec == Init /\ [][RestartNext]_vars

\* mrklar::run on a db.bin that does not decode: MemDb::try_load(&config)?
\* returns DbLoad out of run, no server is built and every call not yet
\* answered ends Unavailable; the archive in memory is read by nothing
StartFails ==
    /\ ~try_load(db_bin).ok
    /\ obs' = [NoObs EXCEPT !.op = "try_load", !.ok = FALSE,
                            !.task_err = try_load(db_bin).err]
    /\ up' = [c \in Calls |-> IF up[c].pc = "done" THEN up[c] ELSE Cut]
    /\ lock' = 0
    /\ UNCHANGED <<tree, entries, files_db, tmp_file, db_bin, acquired, dlvars>>

\* the process stops inside the save of call c, after File::create has
\* emptied db.bin and before the BufWriter's bytes have reached the file, and
\* is started again on what is left
CrashInSave(c) ==
    /\ up[c].pc = "save"
    /\ db_bin' = DbTruncated
    /\ obs' = [NoObs EXCEPT !.op = "try_load", !.ok = try_load(DbTruncated).ok,
                            !.task_err = try_load(DbTruncated).err]
    /\ up' = [d \in Calls |-> IF up[d].pc = "done" THEN up[d] ELSE Cut]
    /\ lock' = 0
    /\ UNCHANGED <<tree, entries, files_db, tmp_file, acquired, dlvars>>

CrashNext ==
    \/ \E c \in Calls : StreamUpload(c)
    \/ Restart
    \/ StartFails
    \/ \E c \in Calls : CrashInSave(c)

\* uploads that reach add_file, one call after the other, on a server whose
\* process may stop at any moment, inside save included, and be started again
CrashSpec == Init /\ [][CrashNext]_vars

(***************************************************************************)
(* Reads and a download issued while uploads are consuming their chunks:   *)
(* concurrent uploads on their way to a commit that succeeds, and count,   *)
(* root and the snapshot of download(0) beside them.                       *)
(***************************************************************************)
\* some upload is in its chunk-consuming phase
Staging == \E c \in Calls : up[c].pc = "chunks"

\* a step of an upload that does not end in an error
UploadToCommit(c) == UploadNext(c) /\ up'[c].err = "none"

StagingNext ==
    \/ \E c \in Calls : UploadToCommit(c)
    \/ Staging /\ Count
    \/ Staging /\ Root
    \/ Staging /\ DownloadStart /\ dl'.index = 0
    \/ DownloadEntry

StagingSpec == Init /\ [][StagingNext]_vars

(***************************************************************************)
(* The chunking loop on its own: MrklarApi::upload reads a file of any     *)
(* length with any chunk size and sends its chunks.                        *)
(***************************************************************************)
\* a file of length len: the byte at position i is written i
FileOf(len) == [i \in 1..len |-> i]

\* the task of MrklarApi::upload after the Metadata and the Sha256: the chunks
\* it sends for a file (input) with config.chunk_size (index)
ClientUploadChunks ==
    /\ \E len \in 0..MaxFileLen, size \in 1..MaxChunkSize :
         obs' = [NoObs EXCEPT !.op = "chunks", !.index = size,
                              !.input = FileOf(len),
                              !.val = chunk_loop(FileOf(len), 0, size, <<>>)]
    /\ UNCHANGED <<tree, entries, lock, files_db, tmp_file, db_bin, up, acquired, dlvars>>

ChunkSpec == Init /\ [][ClientUploadChunks]_vars

(***************************************************************************)
(* The tree engine on its own: leaves added to a MerkleTree, as the unit   *)
(* tests of crates/tree do.                                                *)
(***************************************************************************)
\* MerkleTree::add_leaf on the tree alone
TreeAddLeaf ==
    /\ leaf_count(tree) < MaxLeaves
    /\ \E h \in Digests :
         LET r == add_leaf(tree, h)
         IN  /\ r.ok
             /\ tree' = r.val.levels
    /\ obs' = NoObs
    /\ UNCHANGED <<entries, lock, files_db, tmp_file, db_bin, up, acquired, dlvars>>

\* MerkleTree::proof_at on the tree alone
TreeProof ==
    /\ \E i \in 0..leaf_count(tree) : Observed("proof", i, proof_at(tree, i))
    /\ UNCHANGED <<tree, entries, lock, files_db, tmp_file, db_bin, up, acquired, dlvars>>

\* every hash the tree holds
TreeHashes == UNION {{tree[k].hashes[j] : j \in 1..Len(tree[k].hashes)} : k \in 1..Len(tree)}

\* the inputs verify is tried on: file digests, the null digest, tree nodes
VerifyInputs == Digests \cup {null_hash} \cup TreeHashes

\* MerkleProof::verify of the proof just computed, on some input
TreeVerify ==
    /\ obs.op = "proof"
    /\ obs.ok
    /\ \E x \in VerifyInputs :
         obs' = [obs EXCEPT !.op = "verify", !.input = x, !.verified = verify(obs.val, x)]
    /\ UNCHANGED <<tree, entries, lock, files_db, tmp_file, db_bin, up, acquired, dlvars>>

\* MerkleTree::add_leaf on a tree whose maximum level count is LevelCap, run
\* until it fails: an assertion that fails inside inc_leaves_level, after the
\* push of the new root level, leaves the tree as grown
CapAddLeaf ==
    /\ \E h \in Digests :
         \E r \in {add_leaf_under(tree, h, LevelCap)} :
           /\ tree' = IF r.ok THEN r.val.levels
                      ELSE IF r.err = "panic" /\ levels_assert_under(tree, LevelCap)
                           THEN inc_leaves_level_under(tree, LevelCap).val
                           ELSE tree
           /\ obs' = [NoObs EXCEPT !.op = "add_leaf", !.ok = r.ok,
                                   !.index = IF r.ok THEN r.val.index ELSE 0,
                                   !.input = h,
                                   !.task_err = r.err]
    /\ UNCHANGED <<entries, lock, files_db, tmp_file, db_bin, up, acquired, dlvars>>

\* the tree engine alone, grown up to its maximum level count
CapSpec == Init /\ [][CapAddLeaf]_vars

TreeNext == TreeAddLeaf \/ TreeProof \/ TreeVerify

TreeSpec == Init /\ [][TreeNext]_vars

(***************************************************************************)
(* Properties.                                                             *)
(***************************************************************************)
\* leaf i of the tree (Rust index)
leaf(i) == leaves(tree).hashes[i + 1]

\* upload call c was answered with Ok((file_index, merkle_root))
Succeeded(c) == up[c].pc = "done" /\ up[c].err = "none"

Successes == {c \in Calls : Succeeded(c)}

\* the place of call c in the order of write-lock acquisitions, 0 if none
RECURSIVE PlaceFrom(_, _)
PlaceFrom(c, k) ==
    IF k > Len(acquired) THEN 0
    ELSE IF acquired[k] = c THEN k ELSE PlaceFrom(c, k + 1)

Place(c) == PlaceFrom(c, 1)

\* C1: in every tree that add_leaf has built, for every index i below the
\* leaf count proof_at(i) succeeds, the proof accepts leaf i (the digest of
\* file i), and the digest it recomputes is the current root; and every
\* verify call made on the leaf's own digest answered true.
C1_ProofAcceptsLeaf ==
    /\ obs.op = "none" =>
         \A i \in 0..(leaf_count(tree) - 1) :
           LET p == proof_at(tree, i)
           IN  /\ p.ok
               /\ root_hash(tree).ok
               /\ verify(p.val, leaf(i))
               /\ verify_digest(p.val, leaf(i)) = root_hash(tree).val
    /\ (obs.op = "verify" /\ obs.input = leaf(obs.index)) => obs.verified

\* a five-leaf tree whose last leaf, padded with the null digest on two
\* levels, was just verified
C1_Witness ==
    /\ leaf_count(tree) = 5
    /\ obs.op = "verify"
    /\ obs.index = 4
    /\ obs.input = leaf(4)
    /\ obs.verified
    /\ obs.val.hashes[1] = new_right(null_hash)
    /\ obs.val.hashes[2] = new_right(null_hash)
    /\ obs.val.hashes[3].left

\* C2: in every tree that add_leaf has built, for every leaf index i and
\* every input digest x other than leaf i, the proof of i rejects x and the
\* digest it recomputes from x is not the root; and every verify call made
\* on such an input answered false.
C2_TamperRejected ==
    /\ obs.op = "none" =>
         \A i \in 0..(leaf_count(tree) - 1) :
           LET p == proof_at(tree, i).val
               r == root_hash(tree).val
           IN  \A x \in VerifyInputs \ {leaf(i)} :
                 /\ ~verify(p, x)
                 /\ verify_digest(p, x) # r
    /\ (obs.op = "verify" /\ obs.input # leaf(obs.index)) => ~obs.verified

\* a verify call on a node of the tree that is not the leaf was rejected, in a
\* tree of at least three leaves
C2_Witness ==
    /\ leaf_count(tree) >= 3
    /\ obs.op = "verify"
    /\ obs.input # leaf(obs.index)
    /\ obs.input \in TreeHashes
    /\ ~obs.verified

\* C3 (as claimed): whenever no commit holds the lock, count() is the number
\* of uploads answered with success, and the k-th of them, in commit order,
\* was given index k.
C3_CountIsSuccesses ==
    lock = 0 =>
      /\ num_entries = Cardinality(Successes)
      /\ \A c \in Successes :
           up[c].index = Cardinality({d \in Successes : Place(d) < Place(c)})

\* C4 (as claimed): when download(i) was asked for an index below count()
\* and its stream has ended and was read to its end, the bytes received are
\* the bytes uploaded at index i: their SHA-256 is leaf i of the tree.
C4_DownloadedBytes ==
    (/\ dl.pc = "done" /\ dl.err \notin {"FileIndexDoesNotExist", "SendError"}
     /\ chan = <<>> /\ rx.open) =>
      /\ rx.got_entry
      /\ Sha256(rx.bytes) = leaf(dl.index)

\* C5 (as claimed): whenever no commit holds the lock, every index below
\* num_entries has its file in files_db, the file's SHA-256 is the leaf, and
\* the entry's filename is not empty.
C5_CommittedState ==
    lock = 0 =>
      \A i \in 0..(num_entries - 1) :
        /\ files_db[i] # NoFile
        /\ Sha256(files_db[i]) = leaf(i)
        /\ entries[i + 1] # <<>>

\* C6: two uploads whose commits follow one another and that both succeed
\* were given indexes that differ by exactly one, both below count(); and no
\* upload waits for the write lock for ever: the lock is only ever held by a
\* call that is at one of the steps of its commit, which end by releasing it.
C6_ConcurrentUploads ==
    /\ \A c, d \in Successes :
         Place(d) = Place(c) + 1 =>
           /\ up[d].index = up[c].index + 1
           /\ lock = 0 => num_entries > up[d].index
    /\ lock # 0 =>
         /\ lock \in Calls
         /\ up[lock].pc \in {"add_leaf", "push_entry", "rename", "save"}

\* the second call was started while the first was running, committed
\* before it, and both were answered with success
C6_Witness ==
    /\ Succeeded(1) /\ Succeeded(2)
    /\ acquired = <<2, 1>>
    /\ up[2].index = 0 /\ up[1].index = 1
    /\ num_entries = 2

\* C7: of two successful uploads, the one whose commit acquired the write
\* lock first has the smaller index.
C7_IndexOrderIsLockOrder ==
    \A c, d \in Successes : Place(c) < Place(d) => up[c].index < up[d].index

\* two successes after a commit that failed in between or before
C7_Witness ==
    /\ Cardinality(Successes) = 2
    /\ \E c, d \in Successes : Place(c) < Place(d) /\ up[c].index < up[d].index
    /\ acquired[1] = 2

\* C8: a root() answered when uploads have succeeded is the root of a tree
\* that holds each successful upload's digest at its index (the proof of that
\* index recomputes the answered root from the digest); when the last commit
\* to acquire the lock succeeded, the answer is the root of its response.
C8_RootReflectsCommits ==
    (obs.op = "root" /\ Successes # {}) =>
      /\ obs.ok
      /\ \A c \in Successes :
           /\ up[c].index < leaf_count(tree)
           /\ leaf(up[c].index) = up[c].file_hash
           /\ proof_at(tree, up[c].index).ok
           /\ verify_digest(proof_at(tree, up[c].index).val, up[c].file_hash) = obs.val
      /\ Succeeded(acquired[Len(acquired)]) => obs.val = up[acquired[Len(acquired)]].root

\* root() answered after two successful uploads of different files
C8_Witness ==
    /\ obs.op = "root"
    /\ Cardinality(Successes) = 2
    /\ up[1].file_hash # up[2].file_hash
    /\ obs.val = up[acquired[2]].root
    /\ obs.val # up[acquired[1]].root

\* C9: when the stream has ended and the staged bytes do not hash to the
\* declared digest, the step of the task ends the call with UploadInvalidHash,
\* removes the staged file and leaves entries, tree, files and db.bin as they
\* were; and only a call whose staged bytes hash to the declared digest goes
\* on to the commit.
C9_InvalidHashRejected ==
    [][\A c \in Calls :
         /\ (up[c].pc = "compare" /\ Sha256(tmp_file[c]) # up[c].file_hash
               /\ up'[c] # up[c]) =>
              /\ up'[c].pc = "done"
              /\ up'[c].err = "UploadInvalidHash"
              /\ tmp_file'[c] = NoFile
              /\ <<entries, tree, files_db, db_bin>>' = <<entries, tree, files_db, db_bin>>
         /\ up'[c].pc = "commit" => Sha256(tmp_file'[c]) = up'[c].file_hash
      ]_vars

\* one call was refused for its digest while the archive holds the file of
\* another
C9_Witness ==
    \E c, d \in Calls :
      /\ up[c].pc = "done" /\ up[c].err = "UploadInvalidHash"
      /\ Succeeded(d)
      /\ num_entries = 1
      /\ tmp_file[c] = NoFile

\* C10: once an upload call has ended in an error, its staging file does not
\* exist.
C10_TmpFileRemoved ==
    \A c \in Calls :
      (up[c].pc = "done" /\ up[c].err # "none") => tmp_file[c] = NoFile

\* one call failed inside the commit at the rename, the other on a transport
\* error while it was reading chunks into its staging file
C10_Witness ==
    \E c, d \in Calls :
      /\ up[c].pc = "done" /\ up[c].err = "Unexpected"
      /\ num_entries = 1 /\ files_db[0] = NoFile
      /\ up[d].pc = "done" /\ up[d].err = "Status"
      /\ tmp_file[c] = NoFile /\ tmp_file[d] = NoFile

\* the stream read by call c followed the protocol up to its end
StreamOk(c) ==
    IF up[c].pc = "done" THEN up[c].protocol_ok ELSE ProtocolStream(up[c].stream)

\* the number of times call c has entered add_file
Attempts(c) == Cardinality({k \in 1..Len(acquired) : acquired[k] = c})

\* C11: a call enters the commit (add_file) only when the stream it has read
\* is one Metadata with a non-empty filename, one Sha256, Chunks and the end
\* of the stream, with the declared digest that of the chunks' bytes, and it
\* enters it at most once; a call whose stream was so and that has ended
\* entered the commit unless an I/O error of the staging file stopped it, and
\* while it runs it is at the comparison or in the commit; a call answered
\* with success stored a file whose SHA-256 is its leaf, the declared digest.
C11_CommitIffProtocol ==
    \A c \in Calls :
      /\ Place(c) > 0 => StreamOk(c)
      /\ Attempts(c) <= 1
      /\ (up[c].pc = "done" /\ up[c].protocol_ok) =>
            (Place(c) > 0 \/ up[c].err = "Io")
      /\ (up[c].pc # "done" /\ ProtocolStream(up[c].stream)) =>
            up[c].pc \in {"compare", "commit", "add_leaf", "push_entry", "rename", "save"}
      /\ Succeeded(c) =>
            /\ leaf(up[c].index) = up[c].file_hash
            /\ Sha256(files_db[up[c].index]) = up[c].file_hash

\* a stream with no Chunk was committed as the zero-byte file, and a call
\* whose stream broke the protocol ended without entering the commit
C11_Witness ==
    \E c, d \in Calls :
      /\ Succeeded(c) /\ up[c].protocol_ok
      /\ files_db[up[c].index] = <<>>
      /\ leaf(up[c].index) = Sha256(<<>>)
      /\ up[d].pc = "done" /\ ~up[d].protocol_ok /\ Place(d) = 0
      /\ up[d].err = "UnknownMessageType"

\* C12: the step of a task that reads, as its first message, a Metadata with
\* an empty filename ends the call with UploadInvalidFilename, with no
\* staging file and with entries, tree, files and db.bin as they were; a task
\* goes on to the digest only with a non-empty filename.
C12_EmptyFilenameRejected ==
    [][\A c \in Calls :
         /\ (up[c].pc = "metadata" /\ up'[c].pc = "done"
               /\ up'[c].last = Msg("Metadata", <<>>)) =>
              /\ up'[c].err = "UploadInvalidFilename"
              /\ tmp_file[c] = NoFile /\ tmp_file'[c] = NoFile
              /\ <<entries, tree, files_db, db_bin>>' = <<entries, tree, files_db, db_bin>>
         /\ (up[c].pc = "metadata" /\ up'[c].pc = "sha256") => up'[c].filename # <<>>
      ]_vars

\* a call was refused for its empty filename while the archive holds the
\* file of another
C12_Witness ==
    \E c, d \in Calls :
      /\ up[c].pc = "done" /\ up[c].err = "UploadInvalidFilename"
      /\ up[c].last = Msg("Metadata", <<>>)
      /\ tmp_file[c] = NoFile
      /\ Succeeded(d) /\ num_entries = 1

\* the errors of an upload that are violations of the protocol
ProtocolErrors ==
    {"EmptyMessage", "UndefinedMessageType", "UnknownMessageType",
     "UploadInvalidFilename", "UploadInvalidHash"}

\* C13 (as claimed): an upload that ended on a violation of the protocol is
\* answered with a status whose code is invalid-argument.
C13_ProtocolErrorIsInvalidArgument ==
    \A c \in Calls :
      (up[c].pc = "done" /\ up[c].err \in ProtocolErrors) => up[c].code = "InvalidArgument"

\* C14 (as claimed): root() answered on an archive with no entry is the
\* error TreeEmpty, with no digest.
C14_EmptyRootIsTreeEmpty ==
    (obs.op = "root" /\ num_entries = 0) => (~obs.ok /\ obs.val = <<"TreeEmpty">>)

\* C15 (as claimed): proof(n) asked for an index that is not below count()
\* is answered with an error, the status of FileIndexDoesNotExist, and its
\* stream carries no proof message.
C15_ProofOutOfRangeFails ==
    (obs.op = "proof" /\ obs.index >= num_entries) =>
      /\ ~obs.ok
      /\ obs.val = <<>>

\* C16 (as claimed): a download whose task ended on an error before it sent
\* any message was answered with an error status, not with a stream.
C16_EarlyErrorIsRpcStatus ==
    (dl.pc = "done" /\ dl.err # "none" /\ dl.sent = <<>>) => dl.rpc # "Ok"

\* the chunks of the messages that follow the first in stream s
ChunksOf(s) == [k \in 1..(Len(s) - 1) |-> s[k + 1].data]

RECURSIVE Flatten(_, _)
\* the concatenation of the sequences of ss from position k on
Flatten(ss, k) == IF k > Len(ss) THEN <<>> ELSE ss[k] \o Flatten(ss, k + 1)

\* C18: for a file of length L and a chunk size C >= 1 the chunking loop ends
\* having sent exactly ceil(L / C) chunks, none empty and none longer than C,
\* whose concatenation is the file; when L is a multiple of C the last chunk
\* has C bytes and no empty chunk follows it, and for L = 0 nothing is sent.
C18_ChunkCount ==
    obs.op = "chunks" =>
      LET L == Len(obs.input)
          C == obs.index
      IN  /\ Len(obs.val) = (L + C - 1) \div C
          /\ \A k \in 1..Len(obs.val) : Len(obs.val[k]) \in 1..C
          /\ Flatten(obs.val, 1) = obs.input
          /\ (L > 0 /\ L % C = 0) => Len(obs.val[Len(obs.val)]) = C
          /\ L = 0 => obs.val = <<>>

\* a file of eight bytes was sent as two chunks of four
C18_Witness ==
    /\ obs.op = "chunks"
    /\ obs.index = 4
    /\ obs.val = << <<1, 2, 3, 4>>, <<5, 6, 7, 8>> >>

\* index i is the index an upload was answered with
CommittedIndex(i) == \E c \in Calls : Succeeded(c) /\ up[c].index = i

\* the download has ended well and the client has received all of it
Delivered ==
    /\ dl.pc = "done" /\ dl.err = "none"
    /\ chan = <<>>
    /\ rx.got_entry
    /\ rx.bytes = files_db[dl.index]
    /\ Sha256(rx.bytes) = leaf(dl.index)
    /\ rx.proof.ok
    /\ verify(rx.proof.val, leaf(dl.index))

\* C19: a download started on the index of a successful upload leads, whatever
\* uploads commit meanwhile, to the client having received the Entry and every
\* chunk: the bytes are the file of that index, and the proof it received
\* accepts the leaf against the root it carries; unless the client itself
\* drops the stream.
C19_DownloadCompletes ==
    (dl.pc = "entry" /\ CommittedIndex(dl.index)) ~> (~rx.open \/ Delivered)

\* a download was delivered whole, and an upload has committed since the
\* snapshot the proof was taken from
C19_Witness ==
    /\ Delivered
    /\ rx.open
    /\ rx.bytes = <<"a">>
    /\ merkle_root.ok
    /\ rx.proof.val.root # merkle_root.val
    /\ num_entries = 2

\* C20: once the client has dropped the stream, the task sends nothing more
\* (no further send succeeds, which is within the channel capacity), the send
\* it attempts next fails and ends it with the send error, a chunk it has read
\* is followed by no other read, and the task does end.
C20_DisconnectEndsTask ==
    /\ [][~rx.open =>
            /\ dl'.sent = dl.sent
            /\ chan' = chan
            /\ (dl.pc \in {"send_entry", "send_chunk"} /\ dl' # dl) =>
                   (dl'.pc = "done" /\ dl'.err = "SendError")
            /\ dl'.offset <= dl.offset + chunk_size
            /\ (dl.pc = "send_chunk" /\ dl' # dl) => dl'.offset = dl.offset]_vars
    /\ (~rx.open) ~> (dl.pc = "done")

\* the client dropped the stream after the Entry; the task read the first
\* chunk, failed to send it, and ended
C20_Witness ==
    /\ ~rx.open
    /\ dl.pc = "done"
    /\ dl.err = "SendError"
    /\ Len(dl.sent) = 1
    /\ dl.offset = 1
    /\ files_db[dl.index] = <<"a">>

\* the upload call that acquired the write lock last, 0 if none did
LastCommit == IF acquired = <<>> THEN 0 ELSE acquired[Len(acquired)]

\* C21: the proof that proof(i) has just answered with carries, once decoded
\* by the client, the root that root() returns in that same state of the
\* archive; and when the last commit was a successful upload, the merkle_root
\* of that upload's response.
C21_ProofEmbedsRoot ==
    (obs.op = "proof" /\ obs.val # <<>>) =>
      LET p == decode_bin(obs.val[1])
      IN  /\ p.ok
          /\ merkle_root.ok
          /\ p.val.root = merkle_root.val
          /\ (LastCommit # 0 /\ Succeeded(LastCommit)) =>
                 p.val.root = up[LastCommit].root

\* proof(0) answered after two successful uploads: it carries the root of the
\* second response, which is not the root of the first
C21_Witness ==
    /\ obs.op = "proof" /\ obs.index = 0 /\ obs.val # <<>>
    /\ Cardinality(Successes) = 2
    /\ decode_bin(obs.val[1]).val.root = up[acquired[2]].root
    /\ up[acquired[1]].root # up[acquired[2]].root

LoadedArchive(es, levels) == Ok([entries |-> es, tree |-> levels])

\* C22: when an upload call ends in success (its save step returned Ok),
\* try_load of db.bin as that step left it yields the archive held in memory
\* at that commit: the same entries and the same levels of hashes, hence the
\* same count, root and proofs after a restart.
C22_SaveLoadRoundTrip ==
    [][\A c \in Calls :
         (up[c].pc = "save" /\ up'[c].pc = "done" /\ up'[c].err = "none") =>
             try_load(db_bin') = LoadedArchive(entries', tree')
      ]_vars

\* the least k with 2^k >= n, for n >= 1
CeilLog2(n) == CHOOSE k \in 0..n : two_pow_n(k) >= n /\ (k = 0 \/ two_pow_n(k - 1) < n)

AtLeast(n, m) == IF n > m THEN n ELSE m

\* C23 as stated: with n leaves added, the tree has
\* ceil(log2(max(n,1))) + 1 levels.
C23_HeightAsStated ==
    level_count(tree) = CeilLog2(AtLeast(leaf_count(tree), 1)) + 1

\* C23: with n leaves added, the tree has 1 level when n = 0 and
\* ceil(log2(max(n,2))) + 1 levels when n >= 1: a single leaf already has a
\* root level above it.
C23_HeightBound ==
    level_count(tree) = IF leaf_count(tree) = 0 THEN 1
                        ELSE CeilLog2(AtLeast(leaf_count(tree), 2)) + 1

\* the fifth leaf has just raised the tree to four levels
C23_Witness == leaf_count(tree) = 5 /\ level_count(tree) = 4

\* the tree of scenario E5 over the digests a and b: leaves a, b, a, b
FourLeaves(a, b) == a # b /\ leaves(tree).hashes = <<a, b, a, b>>

\* proof(2) of the current tree has just been verified against x
VerifiedProof2(x) == obs.op = "verify" /\ obs.index = 2 /\ obs.input = x

\* C24 as stated: in the tree with leaves A, B, C = A, D = B, verifying
\* proof(2) against the digest A returns false.
C24_VerifyAgainstAFails ==
    \A a, b \in Digests : (FourLeaves(a, b) /\ VerifiedProof2(a)) => ~obs.verified

\* C24: in the tree with leaves A, B, C = A, D = B the root is
\* HASH(HASH(A,B),HASH(C,D)); verifying proof(2) against the digest A returns
\* true, since leaf 2 is A, and verifying it against B or any other digest
\* returns false.
C24_ScenarioE5 ==
    \A a, b \in Digests :
        FourLeaves(a, b) =>
            /\ root_hash(tree) = Ok(sha256_pair(sha256_pair(a, b), sha256_pair(a, b)))
            /\ (obs.op = "verify" /\ obs.index = 2) => (obs.verified <=> obs.input = a)

\* proof(2) of the four-leaf tree was verified against A, and it was accepted
C24_Witness ==
    \E a, b \in Digests : FourLeaves(a, b) /\ VerifiedProof2(a) /\ obs.verified

\* proof(2) of the four-leaf tree was verified against B, and it was refused
C24_WitnessWrongLeaf ==
    \E a, b \in Digests : FourLeaves(a, b) /\ VerifiedProof2(b) /\ ~obs.verified

\* the root of scenario E6 over the five leaves L
RootE6(L) ==
    sha256_pair(sha256_pair(sha256_pair(L[1], L[2]), sha256_pair(L[3], L[4])),
                sha256_pair(sha256_pair(L[5], null_hash), null_hash))

\* C25: the add_leaf that adds a fifth leaf E to a tree of four leaves keeps
\* the four leaves, raises the number of levels by exactly one and leaves the
\* root HASH(HASH(HASH(A,B),HASH(C,D)), HASH(HASH(E,NULL),NULL)); in the
\* resulting tree proof_at(i) exists for every i in 0..4 and verifies leaf i.
C25_ScenarioE6 ==
    [][(leaf_count(tree) = 4 /\ leaf_count(tree') = 5) =>
         LET L == leaves(tree').hashes
         IN  /\ SubSeq(L, 1, 4) = leaves(tree).hashes
             /\ level_count(tree') = level_count(tree) + 1
             /\ root_hash(tree') = Ok(RootE6(L))
             /\ \A i \in 0..4 :
                    /\ proof_at(tree', i).ok
                    /\ verify(proof_at(tree', i).val, L[i + 1])
      ]_vars

\* the tree A, B, C = A, D = B, E = A of test_5, with proof(4) computed and
\* verified against E
C25_Witness ==
    /\ \E a, b \in Digests : a # b /\ leaves(tree).hashes = <<a, b, a, b, a>>
    /\ level_count(tree) = 4
    /\ obs.op = "verify" /\ obs.index = 4 /\ obs.input = leaf(4) /\ obs.verified

\* the level above hs computed from scratch: the hash of each pair, the null
\* digest as the right operand of an odd tail
ParentLevel(hs) ==
    [j \in 1..((Len(hs) + 1) \div 2) |->
        sha256_pair(hs[2 * j - 1], IF 2 * j <= Len(hs) THEN hs[2 * j] ELSE null_hash)]

\* C26: in every tree with at least one leaf added, each level above the
\* leaves is the level below it hashed pair by pair, with the null digest as
\* right operand of an odd tail (so |L[k+1]| = ceil(|L[k]| / 2)), the root
\* level holds exactly one digest, and each level carries its depth below the
\* root: the incrementally updated tree is the tree recomputed from its leaves.
C26_TreeConsistent ==
    leaf_count(tree) >= 1 =>
        /\ \A k \in 1..(Len(tree) - 1) : tree[k + 1].hashes = ParentLevel(tree[k].hashes)
        /\ level_len(root(tree)) = 1
        /\ \A k \in 1..Len(tree) : tree[k].level = Len(tree) - k

\* five leaves: the path of the last leaf ends every level below the root in
\* an odd tail, next to a full subtree of four leaves
C26_Witness ==
    /\ leaf_count(tree) = 5
    /\ level_len(level(tree, 1)) = 3 /\ level_len(level(tree, 2)) = 2
    /\ \E a, b \in Digests : a # b /\ leaves(tree).hashes = <<a, b, b, a, b>>

\* C27: whenever no commit holds the exclusive lock, that is after every
\* add_file call that returned, successfully or not, and after try_load at a
\* restart, the archive in memory has as many entries as leaves; and so has
\* the archive that try_load reads from db.bin.
C27_EntriesInStep ==
    /\ lock = 0 => Len(entries) = leaf_count(tree)
    /\ try_load(db_bin).ok =>
          Len(try_load(db_bin).val.entries) = leaf_count(try_load(db_bin).val.tree)

\* a restart has just loaded an archive of one entry, written by a commit
\* that was followed by a commit that failed
C27_Witness ==
    /\ obs.op = "try_load" /\ lock = 0
    /\ Len(entries) = 1 /\ leaf_count(tree) = 1
    /\ \E c \in Calls : up[c].pc = "done" /\ up[c].err = "Unexpected"

\* the entry of a proof for position p of the level with hashes hs: its
\* sibling, or the null digest in place of the absent right tail
SiblingEntry(hs, p) ==
    LET s == IF p % 2 = 0 THEN p + 1 ELSE p - 1
    IN  IF s = Len(hs) THEN [left |-> FALSE, hash |-> null_hash]
        ELSE [left |-> p % 2 = 1, hash |-> hs[s + 1]]

\* C28: proof_at(i) with i below the number of leaves succeeds with exactly
\* h - 1 entries on a tree of h levels, and its k-th entry (k from 0) is the
\* sibling of position floor(i / 2^k) of level k: the null digest tagged right
\* when the sibling index equals the length of the level, otherwise the
\* sibling's digest, tagged right when the position is even and left when odd.
C28_ProofStructure ==
    (obs.op = "proof" /\ obs.index < leaf_count(tree)) =>
        /\ obs.ok
        /\ Len(obs.val.hashes) = level_count(tree) - 1
        /\ \A k \in 0..(level_count(tree) - 2) :
               obs.val.hashes[k + 1] =
                   SiblingEntry(level(tree, k).hashes, obs.index \div two_pow_n(k))

\* proof_at(4) on five leaves: two null siblings, then the left subtree
C28_Witness ==
    /\ obs.op = "proof" /\ obs.index = 4 /\ leaf_count(tree) = 5 /\ obs.ok
    /\ Len(obs.val.hashes) = 3
    /\ obs.val.hashes[1] = [left |-> FALSE, hash |-> null_hash]
    /\ obs.val.hashes[3].left

\* the type of message each reader state waits for
Awaited(pc) ==
    IF pc = "metadata" THEN "Metadata" ELSE IF pc = "sha256" THEN "Sha256" ELSE "Chunk"

\* the item carries a message of one of the three types
Typed(item) == item.type \in {"Metadata", "Sha256", "Chunk"}

\* the stream ended, or the item is a message with no type or of a type other
\* than the awaited one
Unexpected(item, want) ==
    \/ item.type \in {"None", "Untyped"}
    \/ Typed(item) /\ item.type # want

\* call c reads an item in reader state pc and its task ends on it
EndsIn(c, pc) == up[c].pc = pc /\ up'[c].pc = "done"

\* C29 as stated: in the states awaiting Metadata and awaiting Digest an
\* unexpected message type or an empty stream ends the upload with
\* UndefinedMessageType, EmptyMessage or UploadInvalidFilename and no other
\* error; in the chunk-reading state a non-Chunk message ends it with
\* UnknownMessageType.
C29_ReaderErrorsAsStated ==
    [][\A c \in Calls :
         /\ \A pc \in {"metadata", "sha256"} :
               (EndsIn(c, pc) /\ Unexpected(up'[c].last, Awaited(pc))) =>
                   up'[c].err \in {"UndefinedMessageType", "EmptyMessage",
                                   "UploadInvalidFilename"}
         /\ (EndsIn(c, "chunks") /\ Typed(up'[c].last) /\ up'[c].last.type # "Chunk") =>
               up'[c].err = "UnknownMessageType"
      ]_vars

\* C29: in the states awaiting Metadata and awaiting Digest the end of the
\* stream ends the upload with EmptyMessage, a message with no type with
\* UndefinedMessageType, a message of another type than the awaited one with
\* UnknownMessageType, and a Metadata with an empty filename with
\* UploadInvalidFilename; an upload that ends in these states ends with one of
\* these four or with the transport's Status.  In the chunk-reading state a
\* message of another type than Chunk ends it with UnknownMessageType.
C29_ReaderErrors ==
    [][\A c \in Calls :
         /\ \A pc \in {"metadata", "sha256"} :
               EndsIn(c, pc) =>
                 LET item == up'[c].last
                     e == up'[c].err
                 IN  /\ item.type = "None" => e = "EmptyMessage"
                     /\ item.type = "Untyped" => e = "UndefinedMessageType"
                     /\ item.type = "Status" => e = "Status"
                     /\ (Typed(item) /\ item.type # Awaited(pc)) => e = "UnknownMessageType"
                     /\ (Typed(item) /\ item.type = Awaited(pc)) =>
                           pc = "metadata" /\ item.data = <<>> /\ e = "UploadInvalidFilename"
         /\ (EndsIn(c, "chunks") /\ Typed(up'[c].last) /\ up'[c].last.type # "Chunk") =>
               up'[c].err = "UnknownMessageType"
      ]_vars

\* a call sent a Chunk where the Metadata or the Digest was awaited and ended
\* with UnknownMessageType
C29_Witness ==
    \E c \in Calls : /\ up[c].pc = "done" /\ up[c].last.type = "Chunk"
                      /\ up[c].err = "UnknownMessageType"

\* the steps of add_file, from write() to the drop of the guard
CommitSteps == {"add_leaf", "push_entry", "rename", "save"}

\* C30: the exclusive hold is held exactly by a call that is at one of the
\* steps of its commit, so at most one call is committing and no call holds
\* it while it reads its stream or waits to commit; and whenever no call is
\* committing, however many uploads are consuming chunks, count, root, proof
\* and the (entry, proof) snapshot of a started download can each take the
\* shared hold and complete.
C30_OnlyCommitIsExclusive ==
    /\ \A c \in Calls : up[c].pc \in CommitSteps <=> lock = c
    /\ (\A c \in Calls : up[c].pc \notin CommitSteps) =>
          /\ lock = 0
          /\ ENABLED Count /\ ENABLED Root /\ ENABLED Proof
          /\ dl.pc = "entry" => ENABLED DownloadEntry

\* two uploads are consuming chunks at the same time, one of them with a
\* chunk written, and count() has just been answered
C30_Witness ==
    /\ \E c, d \in Calls : /\ c # d /\ up[c].pc = "chunks" /\ up[d].pc = "chunks"
                             /\ up[c].nchunks >= 1
    /\ obs.op = "count"

\* while one upload is consuming chunks after another has committed, root()
\* has been answered and the download has taken its snapshot
C30_WitnessSnapshot ==
    /\ \E c, d \in Calls : Succeeded(c) /\ up[d].pc = "chunks"
    /\ obs.op = "root" /\ obs.ok
    /\ dl.pc = "send_entry"

\* every level above the leaves is the level below it, hashed pair by pair
Rehashed(levels) ==
    \A k \in 1..(Len(levels) - 1) : levels[k + 1].hashes = ParentLevel(levels[k].hashes)

\* the step answers a count, root or proof call, or takes the (entry, proof)
\* snapshot of the download
SnapshotTaken ==
    \/ obs'.op \in {"count", "root", "proof"}
    \/ dl.pc = "entry" /\ dl'.pc # "entry"

\* C31: the archive a count, root, proof or download snapshot reads is never
\* in the middle of a commit: no call is between its leaf append and the end
\* of its save, the tree has as many leaves as there are entries, every level
\* is re-hashed, and the file of every upload that was answered with success
\* is in place under its index with the digest of its leaf; and count answers
\* the number of entries of that archive.
C31_CommitAtomicForReaders ==
    [][SnapshotTaken =>
         /\ \A c \in Calls : up[c].pc \notin CommitSteps
         /\ Len(entries) = leaf_count(tree)
         /\ Rehashed(tree)
         /\ \A c \in Successes :
               /\ up[c].index < Len(entries)
               /\ files_db[up[c].index] # NoFile
               /\ Sha256(files_db[up[c].index]) = leaf(up[c].index)
         /\ obs'.op = "count" => obs'.val = <<leaf_count(tree)>>
      ]_vars

\* between the commit of one upload and the commit of the next, which has
\* staged its file, count() answered 1 and the download took its snapshot
C31_Witness ==
    /\ Cardinality(Successes) = 1
    /\ \E c \in Calls : up[c].pc = "commit"
    /\ obs.op = "count" /\ obs.val = <<1>>
    /\ dl.pc = "send_entry"

\* the producer is at tx.send(..).await with the channel full and the
\* receiver alive
Parked ==
    /\ dl.pc \in {"send_entry", "send_chunk"}
    /\ Len(chan) = channel_size
    /\ rx.open

\* C32: the channel between the download task and the stream never holds
\* more than channel_size messages; a task that is at send with the channel
\* full can take no step, so it reads no file bytes, until the client takes a
\* message; hence the file bytes read and not yet received by a client that
\* holds the stream never exceed those of channel_size + 1 chunks.
C32_BoundedHandoff ==
    /\ Len(chan) <= channel_size
    /\ Parked => ~ENABLED DownloadTask
    /\ rx.open => dl.offset - Len(rx.bytes) <= (channel_size + 1) * chunk_size

\* the task holds a chunk it has read and waits at send behind a full channel
C32_Witness ==
    /\ Parked
    /\ dl.pc = "send_chunk" /\ dl.pending.type = "Chunk"
    /\ dl.offset - Len(rx.bytes) >= chunk_size

\* C33: when the rename of a commit fails, the call ends with an error for
\* the caller; the leaf and the entry it appended stay in the archive in
\* memory, so that count() is one more than the index the call was given,
\* which was the count before the call; the temp file is removed; db.bin and
\* the files of the archive are left as they were; and the guard is released.
C33_RenameFailure ==
    [][\A c \in Calls :
         (up[c].pc = "rename" /\ up'[c].pc = "done") =>
             /\ up'[c].err = "Unexpected" /\ up'[c].code # "Ok"
             /\ entries' = entries /\ tree' = tree
             /\ Len(entries') = up[c].index + 1
             /\ leaf_count(tree') = up[c].index + 1
             /\ entries'[up[c].index + 1] = up[c].filename
             /\ leaves(tree').hashes[up[c].index + 1] = up[c].file_hash
             /\ tmp_file[c] # NoFile /\ tmp_file'[c] = NoFile
             /\ db_bin' = db_bin /\ files_db' = files_db
             /\ lock = c /\ lock' = 0
      ]_vars

\* the first commit failed at its rename: one entry and one leaf are counted,
\* no file is under index 0, db.bin was never written
C33_Witness ==
    /\ \E c \in Calls : up[c].pc = "done" /\ up[c].err = "Unexpected" /\ tmp_file[c] = NoFile
    /\ Len(entries) = 1 /\ leaf_count(tree) = 1
    /\ files_db[0] = NoFile
    /\ db_bin = NoDb
    /\ lock = 0

\* call c ends on the failure of its save, after its rename
SaveFails(c) == up[c].pc = "save" /\ up'[c].pc = "done" /\ up'[c].err # "none"

\* C34: when the save of a commit fails after its rename, db.bin as the call
\* leaves it loads, at the next start, as the archive from before the call:
\* the archive db.bin held, whose count is the index the call was given; the
\* file of the call stays under that index as an orphan; and an upload that
\* succeeds, after a restart or not, has its own file under its index, with
\* the digest of its leaf, in place of any orphan.
C34_SaveFailureThenRestart ==
    [][\A c \in Calls :
         /\ SaveFails(c) =>
               /\ try_load(db_bin').ok
               /\ try_load(db_bin') = try_load(db_bin)
               /\ Len(try_load(db_bin').val.entries) = up[c].index
               /\ files_db'[up[c].index] # NoFile
         /\ (up[c].pc = "save" /\ up'[c].pc = "done" /\ up'[c].err = "none") =>
               /\ files_db'[up[c].index] # NoFile
               /\ Sha256(files_db'[up[c].index]) = leaves(tree').hashes[up[c].index + 1]
      ]_vars

\* the process stops while call c is in save
StopsInSave(c) == up[c].pc = "save" /\ up'[c].err = "Aborted"

\* C35: when the process stops at any point of a save, db.bin afterwards
\* decodes, and to the whole archive it held before the save or to the whole
\* archive being saved.
C35_SaveAtomic ==
    [][\A c \in Calls :
         StopsInSave(c) =>
           /\ try_load(db_bin').ok
           /\ \/ try_load(db_bin') = try_load(db_bin)
              \/ try_load(db_bin').val = [entries |-> entries, tree |-> tree]
      ]_vars

\* the step is a start of the server: try_load has run on db.bin
Started == obs'.op = "try_load"

\* C36: at a start, try_load gives the empty archive (no entry, the tree of
\* one empty level, count 0) when db.bin is missing; gives the archive whose
\* encoding db.bin holds when a save wrote it whole; and fails with DbLoad
\* when db.bin is there and does not decode, and then no server runs: every
\* call has ended.
C36_TryLoad ==
    [][Started =>
         /\ db_bin'.state = "missing" =>
               /\ obs'.ok
               /\ entries' = <<>>
               /\ tree' = MerkleTree_new
               /\ leaf_count(tree') = 0
         /\ db_bin'.state = "saved" =>
               /\ obs'.ok
               /\ serialize_into(entries', tree') = db_bin'.bytes
               /\ Len(entries') = leaf_count(tree')
         /\ db_bin'.state = "truncated" =>
               /\ ~obs'.ok
               /\ obs'.task_err = "DbLoad"
               /\ \A c \in Calls : up'[c].pc = "done"
      ]_vars

\* a start has loaded an archive of one upload from db.bin, after a start
\* on no db.bin had cut the first call
C36_Witness ==
    /\ obs.op = "try_load"
    /\ obs.ok
    /\ db_bin.state = "saved"
    /\ Len(entries) = 1
    /\ leaf_count(tree) = 1
    /\ \E c \in Calls : up[c].err = "Aborted"

\* the level count add_leaf on the tree is to end with: one more when the
\* leaves level is full or the tree is empty
HeightAfterAdd == IF is_full(leaves(tree)) \/ tree_is_empty(tree)
                  THEN Len(tree) + 1 ELSE Len(tree)

\* C37: the tree never has more levels than the maximum level count; an
\* add_leaf succeeds exactly when the level count it ends with is within the
\* maximum, and otherwise returns TooManyLevels, fails no assertion and
\* leaves the tree as it was.
C37_HeightCapped ==
    [][obs'.op = "add_leaf" =>
         /\ Len(tree') <= LevelCap
         /\ obs'.ok <=> HeightAfterAdd <= LevelCap
         /\ ~obs'.ok => /\ obs'.task_err = "TooManyLevels"
                        /\ tree' = tree
      ]_vars

\* the number of indices clients can observe: the entries count() can read,
\* which during a commit, the guard held, is the count from before it
ObservableCount ==
    IF lock = 0 THEN Len(entries)
    ELSE IF up[lock].pc \in {"rename", "save"} THEN up[lock].index
    ELSE Len(entries)

\* C38: an index clients can observe stays in the archive with the same leaf
\* digest, the same filename and the same file bytes, through every step:
\* uploads, failed commits and restarts.
C38_ObservableIndexImmutable ==
    [][\A i \in 0..(ObservableCount - 1) :
         /\ Len(entries') > i
         /\ leaf_count(tree') > i
         /\ entries'[i + 1] = entries[i + 1]
         /\ leaves(tree').hashes[i + 1] = leaves(tree).hashes[i + 1]
         /\ files_db'[i] = files_db[i]
      ]_vars

\* the archive db.bin decodes to
Persisted == try_load(db_bin).val

\* C39: the archive a save has written to db.bin satisfies the committed-state
\* invariant: under every index below its count there is a file, and the
\* SHA-256 of the file is the leaf the archive has at that index.
C39_PersistedInvariant ==
    db_bin.state = "saved" =>
        /\ try_load(db_bin).ok
        /\ \A i \in 0..(Len(Persisted.entries) - 1) :
             /\ files_db[i] # NoFile
             /\ Sha256(files_db[i]) = leaves(Persisted.tree).hashes[i + 1]

\* C40: the holder of the lock is in tree.add_leaf or can take its next
\* step, which waits for no other task; the lock, once held, is released; a commit that has
\* asked for the lock gets it and ends; count can read whenever the lock is
\* free, and the snapshot of a download is taken: whatever the other uploads
\* do and whether or not the client of the download receives.
C40_LockProgress ==
    /\ [](lock # 0 => \/ up[lock].pc = "add_leaf"
                      \/ ENABLED AddFileAfterLeaf(lock))
    /\ [](lock = 0 => ENABLED Count)
    /\ (lock # 0) ~> (lock = 0)
    /\ \A c \in Calls : (up[c].pc = "commit") ~> (up[c].pc = "done")
    /\ (dl.pc = "entry") ~> (dl.pc # "entry")

\* one commit holds the lock, another upload waits for it, and so does the
\* snapshot of a download
C40_Witness ==
    /\ lock # 0
    /\ up[lock].pc = "rename"
    /\ \E d \in Calls : up[d].pc = "commit"
    /\ dl.pc = "entry"

\* the second commit has ended while the download of the first file is
\* parked on a full channel
C40_WitnessStalled ==
    /\ Parked
    /\ Cardinality(Successes) = 2
    /\ lock = 0

====
